---- MODULE Spec2Model ----
(***************************************************************************)
(* Deep research agent: the LangGraph workflow of src/agents/graph.py,     *)
(* its nodes, the routing function and the parallel search executor.       *)
(*                                                                         *)
(* Spec        one session started through DeepResearchAgent.research():   *)
(*             one action per graph node plus the routing function.        *)
(* RouteSpec   should_continue_research applied to the states a session    *)
(*             can be in when analyze_and_reflect has returned.            *)
(* SearchSpec  one call of SearchExecutor.parallel_search, one action per  *)
(*             step of a limited_search task and of asyncio.gather.        *)
(* StagnationSpec  check_stagnation called on every small reflection       *)
(*             memory and window.                                          *)
(* MergeSpec   merge_entities_with_llm applied twice with one summary.     *)
(* SessionSpec session ids, report files and log files of sessions         *)
(*             started at clock ticks.                                     *)
(* NodeSearchSpec  parallel_search as execute_web_search calls it.         *)
(* RetrySpec   one call of retry_agent_execution, one action per attempt.  *)
(***************************************************************************)
EXTENDS Integers, Sequences, FiniteSets, TLC

----------------------------------------------------------------------------
(* Bounds of the model *)

\* largest max_depth argument passed to research()
MaxDepthArg == 2
\* most queries one query-generation call returns
MaxGenerated == 3
\* most collaborator failures counted in error_count in one run
MaxErrors == 1
\* most search results with an empty search_result in one run
MaxEmptyResults == 1
\* last cycle in which query generation may return its first queries
MaxLateStart == 1
\* entity keys the entity-merge call can return
MaxEntities == 1
\* largest batch handed to parallel_search in SearchSpec
MaxBatch == 3
\* largest max_concurrent handed to parallel_search in SearchSpec
MaxCap == 2
\* most completed analyses of a state RouteSpec starts in
MaxRouteDepth == 3

(* Settings of the run (src/config/settings.py), chosen inside their       *)
(* validated ranges *)
max_search_depth == 2
max_queries_per_depth == 2

(* Program constants *)
recursion_limit == 100
stagnation_check_iterations == 2
MinAnalysisLength == 200

None == "None"

----------------------------------------------------------------------------
VARIABLES
    pc,                   \* node the graph runs next, or a terminal state
    steps,                \* node executions of this graph run
    router_write_kept,    \* whether the framework keeps a routing function's
                          \* assignment to the state for the next node
    max_depth, current_depth,
    pending_queries, queries_executed,
    search_memory, reflection_memory,
    discovered_entities, entity_graph,
    should_continue, termination_reason,
    error_count, search_count, iteration_count,
    final_report,         \* <<>> until synthesize_report stores the report
    last_node,            \* history: the node that ran last
    cycles,               \* history: executions of analyze_and_reflect
    map_runs, synth_runs, \* history: executions of the two finalize nodes
    empty_results,        \* history: empty search results returned so far
    last_outcomes,        \* history: what each search of the last batch did
    routed,               \* history: what the last routing call returned
                          \* and assigned
    batch, max_concurrent,\* SearchSpec: arguments of parallel_search
    task,                 \* SearchSpec: state of each limited_search task
    sem_value,            \* SearchSpec: free slots of the semaphore
    called,               \* SearchSpec: tasks whose search call was made
    completed,            \* SearchSpec: finished searches, in completion order
    gather,               \* SearchSpec: state of asyncio.gather
    returned,             \* SearchSpec: the list parallel_search returns
    report_file,          \* the file <session_id>_report.json in reports_dir
    result,               \* what research() has returned to its caller
    call,                 \* a direct call of a utility function: its name
                          \* and arguments
    value,                \* <<>>, or the value that call has returned
    now,                  \* SessionSpec: the UTC clock, in ticks
    sessions,             \* SessionSpec: the sessions research() has started
    report_files,         \* SessionSpec: the report files in reports_dir
    log_files,            \* SessionSpec: the audit log files in log_dir
    search_iterations,    \* one audit entry per search stage that had queries
    risk_indicators       \* the red_flags, neutral and positive lists

state_vars == <<max_depth, current_depth, pending_queries, queries_executed,
                search_memory, reflection_memory, discovered_entities,
                entity_graph, should_continue, termination_reason,
                error_count, search_count, iteration_count, final_report>>
hist_vars == <<last_node, cycles, map_runs, synth_runs, empty_results,
               last_outcomes, routed>>
search_vars == <<batch, max_concurrent, task, sem_value, called, completed,
                 gather, returned>>
result_vars == <<report_file, result>>
call_vars == <<call, value>>
session_vars == <<now, sessions, report_files, log_files>>
audit_vars == <<search_iterations, risk_indicators>>
vars == <<pc, steps, router_write_kept, state_vars, hist_vars, search_vars,
          result_vars, call_vars, session_vars, audit_vars>>

----------------------------------------------------------------------------
(* Values the collaborators return *)

\* an analysis_summary, by what check_stagnation reads of it: its length and
\* whether it contains one of the stagnation phrases, written in lower case
\* ("lower") or with capital letters ("upper")
Summaries == { [length |-> 0,   phrase |-> "none"],
               [length |-> 199, phrase |-> "none"],
               [length |-> 200, phrase |-> "none"],
               [length |-> 250, phrase |-> "lower"] }

Reflections == [analysis_summary : Summaries, should_continue : BOOLEAN]

Entities == 1..MaxEntities

\* max_depth arguments of research(): None (0), a negative value, 1..MaxDepthArg
DepthArgs == {-1, 0} \cup (1..MaxDepthArg)

\* the queries a generation call at depth d returns when it returns n queries
GeneratedQueries(d, n) == [i \in 1..n |-> <<d, i>>]

\* a slice that keeps none of the remaining queries
DropAll(s, n) == SubSeq(s, Len(s) + 1, Len(s))

\* an assignment in place of list.extend
assign(list, items) == items

\* list.extend(items)
extend(list, items) == list \o items

Take(s, n) == SubSeq(s, 1, IF Len(s) < n THEN Len(s) ELSE n)
Drop(s, n) == SubSeq(s, (IF Len(s) < n THEN Len(s) ELSE n) + 1, Len(s))

----------------------------------------------------------------------------
(* check_stagnation, src/utils/research_utils.py *)

\* str.lower(): the same length, every phrase in lower case
Lower(text) ==
    [text EXCEPT !.phrase = IF @ = "upper" THEN "lower" ELSE @]

\* any(indicator in analysis for indicator in stagnation_indicators): the
\* indicators are lower-case phrases
has_indicator(analysis) == analysis.phrase = "lower"

IsStagnant(reflection) ==
    LET analysis == Lower(reflection.analysis_summary)
    IN \/ has_indicator(analysis)
       \/ analysis.length < MinAnalysisLength

\* a stagnation check satisfied by a majority of the window
check_stagnation_majority(memory, n_iterations) ==
    IF memory = <<>> \/ n_iterations <= 0 THEN FALSE
    ELSE IF Len(memory) < n_iterations THEN FALSE
    ELSE LET recent == SubSeq(memory, Len(memory) - n_iterations + 1, Len(memory))
             stagnant_count == Cardinality({i \in 1..Len(recent) : IsStagnant(recent[i])})
         IN 2 * stagnant_count >= n_iterations

check_stagnation(memory, n_iterations) ==
    IF memory = <<>> \/ n_iterations <= 0 THEN FALSE
    ELSE IF Len(memory) < n_iterations THEN FALSE
    ELSE LET recent == SubSeq(memory, Len(memory) - n_iterations + 1, Len(memory))
             stagnant_count == Cardinality({i \in 1..Len(recent) : IsStagnant(recent[i])})
         IN stagnant_count >= n_iterations

\* a routing function that checks the reflection's recommendation before the
\* depth limit
should_continue_research_reordered(depth, maxd, memory) ==
    IF memory # <<>> /\ ~memory[Len(memory)].should_continue
    THEN [route |-> "finalize", reason |-> "reflection_recommended_stop"]
    ELSE IF depth >= maxd
    THEN [route |-> "finalize", reason |-> "max_depth_reached"]
    ELSE IF check_stagnation(memory, stagnation_check_iterations)
    THEN [route |-> "finalize", reason |-> "stagnation_detected"]
    ELSE [route |-> "continue_search", reason |-> None]

(* should_continue_research, src/agents/edges/routing.py: the route it      *)
(* returns and the termination_reason it assigns (None: no assignment) *)
\* a routing function that finalizes one level early
should_continue_research_early(depth, maxd, memory) ==
    IF depth + 1 >= maxd
    THEN [route |-> "finalize", reason |-> "max_depth_reached"]
    ELSE [route |-> "continue_search", reason |-> None]

should_continue_research(depth, maxd, memory) ==
    IF depth >= maxd
    THEN [route |-> "finalize", reason |-> "max_depth_reached"]
    ELSE IF memory # <<>> /\ ~memory[Len(memory)].should_continue
    THEN [route |-> "finalize", reason |-> "reflection_recommended_stop"]
    ELSE IF check_stagnation(memory, stagnation_check_iterations)
    THEN [route |-> "finalize", reason |-> "stagnation_detected"]
    ELSE [route |-> "continue_search", reason |-> None]

(* has_new_queries, src/agents/edges/routing.py: the route it returns and   *)
(* the termination_reason it assigns.  No edge of the graph calls it *)
has_new_queries(pending) ==
    IF pending # <<>>
    THEN [route |-> "search_more", reason |-> None]
    ELSE [route |-> "synthesize", reason |-> "no_additional_queries"]

----------------------------------------------------------------------------
(* asyncio.gather over the tasks, without return_exceptions: the first     *)
(* exception of a task is raised to the awaiter, otherwise the results are *)
(* returned in the order of the tasks *)
GatherResult(outcomes) ==
    IF \E i \in 1..Len(outcomes) : outcomes[i] = "fail"
    THEN [raised |-> TRUE, results |-> <<>>]
    ELSE [raised |-> FALSE, results |-> outcomes]

----------------------------------------------------------------------------
NotRouted == [route |-> None, reason |-> None]

\* no parallel_search call in progress
SearchIdle ==
    /\ batch = <<>>
    /\ max_concurrent = 0
    /\ task = <<>>
    /\ sem_value = 0
    /\ called = {}
    /\ completed = <<>>
    /\ gather = "idle"
    /\ returned = <<>>

\* no utility function is called directly
NoCall == [fn |-> None]

\* no session of SessionSpec has started
NoSessions ==
    /\ now = 0
    /\ sessions = <<>>
    /\ report_files = {}
    /\ log_files = {}

\* research() has not returned
NoResult == [returned |-> FALSE, success |-> FALSE, session_id |-> FALSE,
             error |-> FALSE, report |-> <<>>]

\* the state before any node has changed it
\* risk_indicators as initialize_session sets it
NoRisk == [red_flags |-> <<>>, neutral |-> <<>>, positive |-> <<>>]

Fresh ==
    /\ router_write_kept \in BOOLEAN
    /\ current_depth = 0
    /\ pending_queries = <<>>
    /\ queries_executed = <<>>
    /\ search_memory = <<>>
    /\ reflection_memory = <<>>
    /\ discovered_entities = {}
    /\ entity_graph = [nodes |-> {}, edges |-> {}]
    /\ should_continue = TRUE
    /\ termination_reason = None
    /\ error_count = 0
    /\ search_count = 0
    /\ iteration_count = 0
    /\ final_report = <<>>
    /\ last_node = None
    /\ cycles = 0
    /\ map_runs = 0
    /\ synth_runs = 0
    /\ empty_results = 0
    /\ last_outcomes = <<>>
    /\ routed = NotRouted
    /\ SearchIdle
    /\ report_file = "absent"
    /\ result = NoResult
    /\ search_iterations = <<>>
    /\ risk_indicators = NoRisk

Init ==
    /\ pc = "research"
    /\ steps = 0
    /\ max_depth = 0
    /\ Fresh
    /\ call = NoCall
    /\ value = <<>>
    /\ NoSessions

Nodes == {"initialize", "generate_queries", "execute_search",
          "analyze_and_reflect", "map_connections", "synthesize_report"}

\* a node runs while the graph run is within its recursion limit
CanRun(node) == pc = node /\ steps < recursion_limit

Ran(node) == /\ steps' = steps + 1
             /\ last_node' = node

(* DeepResearchAgent.research, src/main.py: input validation and the       *)
(* initial state handed to the graph *)
Research(subject_ok, depth_arg) ==
    /\ pc = "research"
    /\ IF ~subject_ok
       THEN /\ pc' = "rejected"
            /\ result' = [returned |-> TRUE, success |-> FALSE,
                          session_id |-> FALSE, error |-> TRUE,
                          report |-> <<>>]
            /\ UNCHANGED max_depth
       ELSE /\ pc' = "initialize"
            /\ max_depth' = IF depth_arg = 0 THEN max_search_depth ELSE depth_arg
            /\ UNCHANGED result
    /\ UNCHANGED report_file
    /\ UNCHANGED <<steps, router_write_kept, current_depth, pending_queries,
                   queries_executed, search_memory, reflection_memory,
                   discovered_entities, entity_graph, should_continue,
                   termination_reason, error_count, search_count,
                   iteration_count, final_report, hist_vars, search_vars,
                   call_vars,
                   session_vars, audit_vars>>

(* initialize_session, src/agents/nodes/initialize.py: every key research() *)
(* did not set gets its default; max_depth is kept *)
InitializeSession ==
    /\ CanRun("initialize")
    /\ current_depth' = 0
    /\ pending_queries' = <<>>
    /\ queries_executed' = <<>>
    /\ search_memory' = <<>>
    /\ reflection_memory' = <<>>
    /\ discovered_entities' = {}
    /\ entity_graph' = [nodes |-> {}, edges |-> {}]
    /\ should_continue' = TRUE
    /\ termination_reason' = None
    /\ error_count' = 0
    /\ search_count' = 0
    /\ iteration_count' = 0
    /\ pc' = "generate_queries"
    /\ Ran("initialize")
    /\ UNCHANGED <<router_write_kept, max_depth, final_report, cycles,
                   map_runs, synth_runs, empty_results, last_outcomes,
                   routed, search_vars,
                   result_vars, call_vars,
                   session_vars, audit_vars>>

(* generate_search_queries, src/agents/nodes/generate_queries.py *)
GenerateSearchQueries(raises, n) ==
    /\ CanRun("generate_queries")
    /\ IF raises
       THEN /\ n = 0
            /\ error_count < MaxErrors
            /\ error_count' = error_count + 1
            /\ pending_queries' = <<>>
            /\ UNCHANGED iteration_count
       ELSE /\ pending_queries' = GeneratedQueries(current_depth, n)
            /\ iteration_count' = iteration_count + 1
            /\ UNCHANGED error_count
    /\ pc' = "execute_search"
    /\ Ran("generate_queries")
    /\ UNCHANGED <<router_write_kept, max_depth, current_depth,
                   queries_executed, search_memory, reflection_memory,
                   discovered_entities, entity_graph, should_continue,
                   termination_reason, search_count, final_report, cycles,
                   map_runs, synth_runs, empty_results, last_outcomes,
                   routed, search_vars,
                   result_vars, call_vars,
                   session_vars, audit_vars>>

(* execute_web_search, src/agents/nodes/web_search.py.  outcomes[i] is what *)
(* the search of the i-th submitted query does: "ok" (a result with text), *)
(* "empty" (a result whose search_result is empty) or "fail" (it raises) *)
SearchOutcomes == {"ok", "empty", "fail"}

Submitted(queries) == Take(queries, max_queries_per_depth)

CountOf(outcomes, kind) == Cardinality({i \in 1..Len(outcomes) : outcomes[i] = kind})

\* the search_memory entries of one batch: one per result with text, in order
RECURSIVE IterationSearchMemories(_, _, _)
IterationSearchMemories(queries, res, depth) ==
    IF queries = <<>> \/ res = <<>> THEN <<>>
    ELSE (IF Head(res) = "ok"
          THEN <<[query |-> Head(queries), depth |-> depth]>>
          ELSE <<>>) \o IterationSearchMemories(Tail(queries), Tail(res), depth)

\* str(e) of the exception a failed batch raises
SearchError == "search failed"

\* an audit entry that drops the errors caught
iteration_data_no_errors(queries, errors) == [queries |-> queries, errors |-> <<>>]

\* the audit entry of one search stage: the queries submitted and the
\* errors caught
iteration_data(queries, errors) == [queries |-> queries, errors |-> errors]

ExecuteWebSearch(outcomes) ==
    /\ CanRun("execute_search")
    /\ last_outcomes' = outcomes
    /\ IF pending_queries = <<>>
       THEN /\ outcomes = <<>>
            /\ UNCHANGED <<search_memory, queries_executed, pending_queries,
                           search_count, error_count, empty_results,
                           search_iterations>>
       ELSE LET queries == Submitted(pending_queries)
                gathered == GatherResult(outcomes)
                res == gathered.results
            IN /\ Len(outcomes) = Len(queries)
               /\ empty_results + CountOf(outcomes, "empty") <= MaxEmptyResults
               /\ empty_results' = empty_results + CountOf(outcomes, "empty")
               /\ IF gathered.raised
                  THEN /\ error_count < MaxErrors
                       /\ error_count' = error_count + 1
                       /\ search_iterations' = Append(search_iterations,
                              iteration_data(queries, <<SearchError>>))
                       /\ UNCHANGED <<search_memory, queries_executed,
                                      pending_queries, search_count>>
                  ELSE /\ search_memory' = extend(search_memory,
                              IterationSearchMemories(queries, res, current_depth))
                       /\ queries_executed' = extend(queries_executed, queries)
                       /\ pending_queries' = Drop(pending_queries, max_queries_per_depth)
                       /\ search_count' = search_count + Len(res)
                       /\ search_iterations' = Append(search_iterations,
                              iteration_data(queries, <<>>))
                       /\ UNCHANGED error_count
    /\ pc' = "analyze_and_reflect"
    /\ Ran("execute_search")
    /\ UNCHANGED <<router_write_kept, max_depth, current_depth,
                   reflection_memory, discovered_entities, entity_graph,
                   should_continue, termination_reason, iteration_count,
                   final_report, cycles, map_runs, synth_runs, routed,
                   search_vars,
                   result_vars, call_vars,
                   session_vars, risk_indicators>>

(* merge_entities_with_llm, src/utils/research_utils.py: llm_merged is the  *)
(* merged_entities dictionary the entity-merge call returns *)
merge_entities_with_llm(existing_entities, analysis_summary, llm_merged) ==
    IF analysis_summary.length = 0 THEN existing_entities
    ELSE IF llm_merged # {} THEN llm_merged ELSE existing_entities

(* analyze_and_reflect, src/agents/nodes/analyze.py.  raises: the analysis  *)
(* call or the entity-merge call raises; out: the reflection the analysis  *)
(* call returns; llm_merged as above *)
NoReflection == [analysis_summary |-> [length |-> 0, phrase |-> "none"],
                 should_continue |-> FALSE]

\* an analysis that leaves the depth as it is
keep_depth(depth) == depth

\* state["current_depth"] += 1
increment_depth(depth) == depth + 1

AnalyzeAndReflect(raises, out, llm_merged) ==
    /\ CanRun("analyze_and_reflect")
    /\ cycles' = cycles + 1
    /\ Ran("analyze_and_reflect")
    /\ IF search_memory = <<>>
       THEN /\ ~raises /\ out = NoReflection /\ llm_merged = {}
            /\ pc' = "route"
            /\ UNCHANGED <<reflection_memory, discovered_entities,
                           should_continue, current_depth>>
       ELSE IF raises
       THEN /\ out = NoReflection /\ llm_merged = {}
            /\ pc' = "failed"
            /\ UNCHANGED <<reflection_memory, discovered_entities,
                           should_continue, current_depth>>
       ELSE /\ reflection_memory' = Append(reflection_memory, out)
            /\ discovered_entities' =
                   merge_entities_with_llm(discovered_entities,
                                           out.analysis_summary, llm_merged)
            /\ should_continue' = out.should_continue
            /\ current_depth' = increment_depth(current_depth)
            /\ pc' = "route"
    /\ UNCHANGED <<router_write_kept, max_depth, pending_queries,
                   queries_executed, search_memory, entity_graph,
                   termination_reason, error_count, search_count,
                   iteration_count, final_report, map_runs, synth_runs,
                   empty_results, last_outcomes, routed, search_vars,
                   result_vars, call_vars,
                   session_vars, audit_vars>>

\* a conditional edge that sends finalize straight to the report
ConditionalEdgeSkipsMapping(route) ==
    IF route = "finalize" THEN "synthesize_report" ELSE "generate_queries"

\* the route map of the conditional edge, src/agents/graph.py
ConditionalEdge(route) ==
    IF route = "finalize" THEN "map_connections" ELSE "generate_queries"

(* The conditional edge after analyze_and_reflect, src/agents/graph.py:     *)
(* should_continue_research picks the next node.  Its assignment to        *)
(* termination_reason reaches the next node when the framework keeps what  *)
(* a routing function writes into the state it is handed *)
RouteAfterAnalysis ==
    /\ pc = "route"
    /\ LET decision == should_continue_research(current_depth, max_depth,
                                                reflection_memory)
       IN /\ pc' = ConditionalEdge(decision.route)
          /\ termination_reason' =
                 IF decision.reason # None /\ router_write_kept
                 THEN decision.reason ELSE termination_reason
          /\ routed' = decision
    /\ UNCHANGED <<steps, router_write_kept, max_depth, current_depth,
                   pending_queries, queries_executed, search_memory,
                   reflection_memory, discovered_entities, entity_graph,
                   should_continue, error_count, search_count,
                   iteration_count, final_report, last_node, cycles,
                   map_runs, synth_runs, empty_results, last_outcomes,
                   search_vars,
                   result_vars, call_vars,
                   session_vars, audit_vars>>

(* merge_graph_with_llm, src/utils/research_utils.py: has_new, whether    *)
(* there are new nodes or edges to merge; llm_graph, the merged_graph the  *)
(* graph-merge call returns, NoGraph when it returns an empty dict *)
MaxNodes == 1
GraphNodeIds == 1..MaxNodes
GraphEdgeIds == {<<n, n>> : n \in GraphNodeIds}
Graphs == [nodes : SUBSET GraphNodeIds, edges : SUBSET GraphEdgeIds]
NoGraph == [nodes |-> {0}, edges |-> {}]

merge_graph_with_llm(existing_graph, has_new, llm_graph) ==
    IF ~has_new THEN existing_graph
    ELSE IF llm_graph # NoGraph THEN llm_graph ELSE existing_graph

(* map_connections, src/agents/nodes/connect.py.  raises: the               *)
(* connection-mapping call or the graph-merge call raises *)
\* the suspicious_patterns list of the connection-mapping output: the call
\* reports one pattern (an empty list would leave red_flags as it is)
SuspiciousPatterns == {<<"pattern">>}

MapConnections(raises, has_new, llm_graph, suspicious_patterns) ==
    /\ CanRun("map_connections")
    /\ map_runs' = map_runs + 1
    /\ Ran("map_connections")
    /\ IF discovered_entities = {}
       THEN /\ ~raises /\ ~has_new /\ llm_graph = NoGraph
            /\ pc' = "synthesize_report"
            /\ UNCHANGED <<entity_graph, risk_indicators>>
       ELSE IF raises
       THEN /\ ~has_new /\ llm_graph = NoGraph
            /\ pc' = "failed"
            /\ UNCHANGED <<entity_graph, risk_indicators>>
       ELSE /\ has_new \/ llm_graph = NoGraph
            /\ entity_graph' = merge_graph_with_llm(entity_graph, has_new, llm_graph)
            /\ risk_indicators' = [risk_indicators EXCEPT
                   !.red_flags = extend(@, suspicious_patterns)]
            /\ pc' = "synthesize_report"
    /\ UNCHANGED <<router_write_kept, max_depth, current_depth,
                   pending_queries, queries_executed, search_memory,
                   reflection_memory, discovered_entities, should_continue,
                   termination_reason, error_count, search_count,
                   iteration_count, final_report, cycles, synth_runs,
                   empty_results, last_outcomes, routed, search_vars,
                   result_vars, call_vars,
                   session_vars, search_iterations>>

(* synthesize_report, src/agents/nodes/synthesize.py.  The report is       *)
(* generated, given its metadata, stored in the state and then written to  *)
(* its file; an exception at any of these points is counted, recorded in   *)
(* termination_reason and raised again *)

\* where the try block can raise: the report generation, creating or
\* opening the file, writing the JSON into the opened file
SynthesisFailurePoints == {"generate", "open", "dump"}

\* the report with the metadata block synthesize_report adds to it
ReportOf(reason) ==
    [research_depth |-> current_depth,
     total_queries |-> Len(queries_executed),
     termination_reason |-> reason,
     entity_graph |-> entity_graph]

\* a report stage that records its own reason whatever the state holds
SynthesizeReportOverwrites(raises) ==
    /\ CanRun("synthesize_report")
    /\ synth_runs' = synth_runs + 1
    /\ Ran("synthesize_report")
    /\ should_continue' = FALSE
    /\ IF ~raises
       THEN /\ final_report' = <<ReportOf(termination_reason)>>
            /\ report_file' = "complete"
            /\ termination_reason' = "report_synthesized"
            /\ pc' = "END"
            /\ UNCHANGED error_count
       ELSE /\ error_count < MaxErrors
            /\ error_count' = error_count + 1
            /\ termination_reason' = "report_generation_error"
            /\ pc' = "failed"
            /\ \E at \in SynthesisFailurePoints :
                   /\ final_report' = IF at = "generate" THEN final_report
                                      ELSE <<ReportOf(termination_reason)>>
                   /\ report_file' = IF at = "dump" THEN "partial"
                                     ELSE report_file
    /\ UNCHANGED <<router_write_kept, max_depth, current_depth,
                   pending_queries, queries_executed, search_memory,
                   reflection_memory, discovered_entities, entity_graph,
                   search_count, iteration_count, cycles, map_runs,
                   empty_results, last_outcomes, routed, search_vars,
                   result,
                   call_vars,
                   session_vars, audit_vars>>

SynthesizeReport(raises) ==
    /\ CanRun("synthesize_report")
    /\ synth_runs' = synth_runs + 1
    /\ Ran("synthesize_report")
    /\ should_continue' = FALSE
    /\ IF ~raises
       THEN /\ final_report' = <<ReportOf(termination_reason)>>
            /\ report_file' = "complete"
            /\ termination_reason' = IF termination_reason = None
                                     THEN "report_synthesized"
                                     ELSE termination_reason
            /\ pc' = "END"
            /\ UNCHANGED error_count
       ELSE /\ error_count < MaxErrors
            /\ error_count' = error_count + 1
            /\ termination_reason' = "report_generation_error"
            /\ pc' = "failed"
            /\ \E at \in SynthesisFailurePoints :
                   /\ final_report' = IF at = "generate" THEN final_report
                                      ELSE <<ReportOf(termination_reason)>>
                   /\ report_file' = IF at = "dump" THEN "partial"
                                     ELSE report_file
    /\ UNCHANGED <<router_write_kept, max_depth, current_depth,
                   pending_queries, queries_executed, search_memory,
                   reflection_memory, discovered_entities, entity_graph,
                   search_count, iteration_count, cycles, map_runs,
                   empty_results, last_outcomes, routed, search_vars,
                   result,
                   call_vars,
                   session_vars, audit_vars>>

\* a graph run whose recursion limit does not end it
GraphRecursionUnchecked ==
    /\ pc \in Nodes
    /\ steps >= recursion_limit
    /\ UNCHANGED vars

(* The recursion limit of the graph run, src/main.py: the run of a graph    *)
(* that has not reached END after recursion_limit node executions raises,  *)
(* and research() returns the failure *)
GraphRecursionError ==
    /\ pc \in Nodes
    /\ steps >= recursion_limit
    /\ pc' = "failed"
    /\ UNCHANGED <<steps, router_write_kept, state_vars, hist_vars, search_vars,
                   result_vars, call_vars,
                   session_vars, audit_vars>>

\* a research() whose failure result leaves out the session id
ResearchReturnsNoSessionId(report_kept) ==
    /\ pc \in {"END", "failed"}
    /\ ~result.returned
    /\ result' = IF pc = "END"
                 THEN [returned |-> TRUE, success |-> TRUE,
                       session_id |-> TRUE, error |-> FALSE,
                       report |-> IF report_kept THEN final_report ELSE <<>>]
                 ELSE [returned |-> TRUE, success |-> FALSE,
                       session_id |-> FALSE, error |-> TRUE,
                       report |-> <<>>]
    /\ UNCHANGED <<pc, steps, router_write_kept, state_vars, hist_vars,
                   search_vars, report_file, call_vars,
                   session_vars, audit_vars>>

(* The return of research(), src/main.py: the result built from the final  *)
(* state when the graph run ended, or from the exception it raised.        *)
(* report_kept: whether the final state the framework hands back holds the *)
(* final_report key, which AgentState does not declare *)
ResearchReturns(report_kept) ==
    /\ pc \in {"END", "failed"}
    /\ ~result.returned
    /\ result' = IF pc = "END"
                 THEN [returned |-> TRUE, success |-> TRUE,
                       session_id |-> TRUE, error |-> FALSE,
                       report |-> IF report_kept THEN final_report ELSE <<>>]
                 ELSE [returned |-> TRUE, success |-> FALSE,
                       session_id |-> TRUE, error |-> TRUE,
                       report |-> <<>>]
    /\ UNCHANGED <<pc, steps, router_write_kept, state_vars, hist_vars,
                   search_vars, report_file,
                   call_vars,
                   session_vars, audit_vars>>

Terminal == {"END", "failed", "rejected"}

\* how many queries a generation call returns: a generator that has returned
\* nothing usable for MaxLateStart cycles keeps returning no queries
GeneratedCounts ==
    IF search_memory = <<>> /\ cycles > MaxLateStart THEN {0} ELSE 0..MaxGenerated

Next ==
    \/ \E subject_ok \in BOOLEAN, depth_arg \in DepthArgs :
           Research(subject_ok, depth_arg)
    \/ InitializeSession
    \/ \E raises \in BOOLEAN, n \in GeneratedCounts :
           GenerateSearchQueries(raises, n)
    \/ \E n \in 0..max_queries_per_depth :
           \E outcomes \in [1..n -> SearchOutcomes] : ExecuteWebSearch(outcomes)
    \/ \E raises \in BOOLEAN, out \in Reflections, llm_merged \in SUBSET Entities :
           AnalyzeAndReflect(raises, out, llm_merged)
    \/ RouteAfterAnalysis
    \/ \E raises \in BOOLEAN, has_new \in BOOLEAN, llm_graph \in {NoGraph} \cup Graphs,
          suspicious_patterns \in SuspiciousPatterns :
           MapConnections(raises, has_new, llm_graph, suspicious_patterns)
    \/ \E raises \in BOOLEAN : SynthesizeReport(raises)
    \/ GraphRecursionError
    \/ \E report_kept \in BOOLEAN : ResearchReturns(report_kept)

Spec == Init /\ [][Next]_vars

LiveSpec == Spec /\ WF_vars(Next)

----------------------------------------------------------------------------
(* RouteSpec: the routing function on every state a session can be in when *)
(* analyze_and_reflect has returned: current_depth analyses are recorded   *)
(* and every earlier routing decision was continue_search *)

RoutedHere(maxd, memory) ==
    \A k \in 1..(Len(memory) - 1) :
        should_continue_research(k, maxd, SubSeq(memory, 1, k)).route = "continue_search"

RouteInit ==
    /\ pc = "route"
    /\ router_write_kept \in BOOLEAN
    /\ max_depth \in {-1} \cup (1..(MaxRouteDepth + 1))
    /\ current_depth \in 0..MaxRouteDepth
    /\ reflection_memory \in [1..current_depth -> Reflections]
    /\ RoutedHere(max_depth, reflection_memory)
    /\ steps = 1 + 3 * (IF current_depth = 0 THEN 1 ELSE current_depth)
    /\ cycles = IF current_depth = 0 THEN 1 ELSE current_depth
    /\ iteration_count = cycles
    /\ last_node = "analyze_and_reflect"
    /\ pending_queries = <<>>
    /\ queries_executed = [d \in 1..current_depth |-> <<d - 1, 1>>]
    /\ search_memory = [d \in 1..current_depth |-> [query |-> <<d - 1, 1>>, depth |-> d - 1]]
    /\ search_count = current_depth
    /\ search_iterations =
           [d \in 1..current_depth |-> iteration_data(<<<<d - 1, 1>>>>, <<>>)]
    /\ risk_indicators = NoRisk
    /\ last_outcomes = IF current_depth = 0 THEN <<>> ELSE <<"ok">>
    /\ discovered_entities = {}
    /\ entity_graph = [nodes |-> {}, edges |-> {}]
    /\ should_continue = IF current_depth = 0 THEN TRUE
                         ELSE reflection_memory[current_depth].should_continue
    /\ termination_reason = None
    /\ error_count = 0
    /\ final_report = <<>>
    /\ map_runs = 0
    /\ synth_runs = 0
    /\ empty_results = 0
    /\ routed = NotRouted
    /\ SearchIdle
    /\ report_file = "absent"
    /\ result = NoResult
    /\ call = NoCall
    /\ value = <<>>
    /\ NoSessions

RouteNext == RouteAfterAnalysis

RouteSpec == RouteInit /\ [][RouteNext]_vars

----------------------------------------------------------------------------
(* SearchSpec: SearchExecutor.parallel_search,                              *)
(* src/services/search/web_search.py.  Each query gets a limited_search     *)
(* task; a task is "waiting" for the semaphore, "running" its search       *)
(* inside the semaphore, "done" or "failed" *)

SearchResults == {"ok", "empty"}

Running == {i \in 1..Len(task) : task[i] = "running"}

ParallelSearch(queries, cap) ==
    /\ gather = "idle"
    /\ batch' = queries
    /\ max_concurrent' = cap
    /\ sem_value' = cap
    /\ task' = [i \in 1..Len(queries) |-> "waiting"]
    /\ called' = {}
    /\ completed' = <<>>
    /\ gather' = "pending"
    /\ returned' = <<>>
    /\ UNCHANGED <<pc, steps, router_write_kept, state_vars, hist_vars,
                   result_vars, call_vars,
                   session_vars, audit_vars>>

\* a task that calls search without waiting for a free slot
AcquireUnlimited(i) ==
    /\ task[i] = "waiting"
    /\ sem_value' = sem_value - 1
    /\ task' = [task EXCEPT ![i] = "running"]
    /\ called' = called \cup {i}
    /\ UNCHANGED <<pc, steps, router_write_kept, state_vars, hist_vars,
                   batch, max_concurrent, completed, gather, returned,
                   result_vars, call_vars,
                   session_vars, audit_vars>>

\* async with semaphore: the task enters when a slot is free and calls search
Acquire(i) ==
    /\ task[i] = "waiting"
    /\ sem_value > 0
    /\ sem_value' = sem_value - 1
    /\ task' = [task EXCEPT ![i] = "running"]
    /\ called' = called \cup {i}
    /\ UNCHANGED <<pc, steps, router_write_kept, state_vars, hist_vars,
                   batch, max_concurrent, completed, gather, returned,
                   result_vars, call_vars,
                   session_vars, audit_vars>>

\* the search returns: the task leaves the semaphore with its result
SearchReturns(i, res) ==
    /\ task[i] = "running"
    /\ sem_value' = sem_value + 1
    /\ task' = [task EXCEPT ![i] = "done"]
    /\ completed' = Append(completed, [task |-> i, query |-> batch[i], result |-> res])
    /\ UNCHANGED <<pc, steps, router_write_kept, state_vars, hist_vars,
                   batch, max_concurrent, called, gather, returned,
                   result_vars, call_vars,
                   session_vars, audit_vars>>

\* the search raises: the task leaves the semaphore with the exception
SearchRaises(i) ==
    /\ task[i] = "running"
    /\ sem_value' = sem_value + 1
    /\ task' = [task EXCEPT ![i] = "failed"]
    /\ completed' = Append(completed, [task |-> i, query |-> batch[i], result |-> "fail"])
    /\ UNCHANGED <<pc, steps, router_write_kept, state_vars, hist_vars,
                   batch, max_concurrent, called, gather, returned,
                   result_vars, call_vars,
                   session_vars, audit_vars>>

\* the completion record of task i
CompletionOf(i) == CHOOSE c \in {completed[j] : j \in 1..Len(completed)} : c.task = i

\* what gather hands back: the results in the order of the tasks
GatheredResults == [i \in 1..Len(task) |-> CompletionOf(i)]

\* every task has finished without an exception: gather returns
GatherReturns ==
    /\ gather = "pending"
    /\ \A i \in 1..Len(task) : task[i] = "done"
    /\ gather' = "returned"
    /\ returned' = GatheredResults
    /\ UNCHANGED <<pc, steps, router_write_kept, state_vars, hist_vars,
                   batch, max_concurrent, task, sem_value, called, completed,
                   result_vars, call_vars,
                   session_vars, audit_vars>>

\* a task has raised: gather raises its exception; the other tasks run on
GatherRaises ==
    /\ gather = "pending"
    /\ \E i \in 1..Len(task) : task[i] = "failed"
    /\ gather' = "raised"
    /\ UNCHANGED <<pc, steps, router_write_kept, state_vars, hist_vars,
                   batch, max_concurrent, task, sem_value, called, completed,
                   returned,
                   result_vars, call_vars,
                   session_vars, audit_vars>>

\* a session whose search stage is about to call parallel_search
SearchInit ==
    /\ pc = "execute_search"
    /\ steps = 2
    /\ max_depth = max_search_depth
    /\ Fresh
    /\ call = NoCall
    /\ value = <<>>
    /\ NoSessions

SearchNext ==
    \/ \E k \in 1..MaxBatch, cap \in 1..MaxCap :
           ParallelSearch(GeneratedQueries(0, k), cap)
    \/ \E i \in 1..Len(task) : Acquire(i)
    \/ \E i \in 1..Len(task), res \in SearchResults : SearchReturns(i, res)
    \/ \E i \in 1..Len(task) : SearchRaises(i)
    \/ GatherReturns
    \/ GatherRaises

SearchSpec == SearchInit /\ [][SearchNext]_vars

----------------------------------------------------------------------------
(* NodeSearchSpec: parallel_search as execute_web_search calls it,          *)
(* src/agents/nodes/web_search.py: the batch is the pending queries cut to *)
(* max_queries_per_depth, the limit is read from the state *)

\* settings.max_concurrent_searches of the run, inside its validated range
max_concurrent_searches == 1

\* the default of state.get("max_concurrent_searches", 5)
DefaultMaxConcurrent == 5

\* state.get("max_concurrent_searches", 5): no node and no initial state
\* sets the key, and AgentState does not declare it
StateMaxConcurrent == DefaultMaxConcurrent

ParallelSearchFromNode(queries) ==
    ParallelSearch(Submitted(queries), StateMaxConcurrent)

NodeSearchNext ==
    \/ \E n \in 1..MaxGenerated : ParallelSearchFromNode(GeneratedQueries(0, n))
    \/ \E i \in 1..Len(task) : Acquire(i)
    \/ \E i \in 1..Len(task), res \in SearchResults : SearchReturns(i, res)
    \/ \E i \in 1..Len(task) : SearchRaises(i)
    \/ GatherReturns
    \/ GatherRaises

NodeSearchSpec == SearchInit /\ [][NodeSearchNext]_vars

----------------------------------------------------------------------------
(* StagnationSpec: check_stagnation, src/utils/research_utils.py, called   *)
(* on every reflection memory of up to MaxMemory records and every window  *)

\* most reflection records in a memory handed to check_stagnation
MaxMemory == 3

\* analysis summaries by length, and by the phrase they contain and its case
SummaryTexts == [length : {0, 199, 200, 250}, phrase : {"none", "lower", "upper"}]

ReflectionMemories ==
    UNION {[1..k -> [analysis_summary : SummaryTexts, should_continue : {TRUE}]] :
               k \in 0..MaxMemory}

CheckStagnation ==
    /\ call.fn = "check_stagnation"
    /\ value = <<>>
    /\ value' = <<check_stagnation(call.memory, call.n_iterations)>>
    /\ UNCHANGED <<pc, steps, router_write_kept, state_vars, hist_vars,
                   search_vars, result_vars, call,
                   session_vars, audit_vars>>

StagnationInit ==
    /\ pc = "call"
    /\ steps = 0
    /\ max_depth = 0
    /\ Fresh
    /\ router_write_kept
    /\ call \in [fn : {"check_stagnation"}, memory : ReflectionMemories,
                 n_iterations : -1..MaxMemory]
    /\ value = <<>>
    /\ NoSessions

StagnationNext == CheckStagnation

StagnationSpec == StagnationInit /\ [][StagnationNext]_vars

----------------------------------------------------------------------------
(* MergeSpec: merge_entities_with_llm, src/utils/research_utils.py, applied *)
(* twice with the same analysis_summary, the second time to the result of  *)
(* the first.  Each application asks the entity-merge model again *)

\* entity names the entity-merge call can return in MergeSpec
MaxMergeNames == 2
\* largest mention count of an entity record
MaxMentions == 2

\* an entity dictionary: at most one record for a name
EntityDicts ==
    {d \in SUBSET [name : 1..MaxMergeNames, mentions : 1..MaxMentions] :
         \A a \in d, b \in d : a.name = b.name => a = b}

\* no analysis text, and an analysis text naming entities
MergeSummaries == {[length |-> 0, phrase |-> "none"],
                   [length |-> 250, phrase |-> "none"]}

MergeEntities(llm_merged) ==
    /\ call.fn = "merge_entities_with_llm"
    /\ Len(value) < 2
    /\ LET existing_entities == IF value = <<>> THEN call.existing_entities
                                ELSE value[Len(value)]
       IN value' = Append(value,
                          merge_entities_with_llm(existing_entities,
                                                  call.analysis_summary,
                                                  llm_merged))
    /\ UNCHANGED <<pc, steps, router_write_kept, state_vars, hist_vars,
                   search_vars, result_vars, call,
                   session_vars, audit_vars>>

MergeInit ==
    /\ pc = "call"
    /\ steps = 0
    /\ max_depth = 0
    /\ Fresh
    /\ router_write_kept
    /\ call \in [fn : {"merge_entities_with_llm"},
                 existing_entities : EntityDicts,
                 analysis_summary : MergeSummaries]
    /\ value = <<>>
    /\ NoSessions

MergeNext == \E llm_merged \in EntityDicts : MergeEntities(llm_merged)

MergeSpec == MergeInit /\ [][MergeNext]_vars

----------------------------------------------------------------------------
(* SessionSpec: sessions started by concurrent calls of research().  Each   *)
(* takes its id from the clock (src/utils/helpers.py), logs to the file    *)
(* named after the id (src/observability/logger.py) and writes its report  *)
(* to the file named after the id (src/agents/nodes/synthesize.py) *)

\* concurrent sessions
MaxSessions == 2
\* last tick of the clock
MaxTicks == 5
\* clock ticks in one second
TicksPerSecond == 2

\* datetime.utcnow().strftime("%Y%m%d_%H%M%S"): the time cut to whole seconds
generate_session_id(t) == t \div TicksPerSecond

Tick ==
    /\ pc = "sessions"
    /\ now < MaxTicks
    /\ now' = now + 1
    /\ UNCHANGED <<pc, steps, router_write_kept, state_vars, hist_vars,
                   search_vars, result_vars, call_vars, sessions,
                   report_files, log_files, audit_vars>>

\* research() up to the first log entry of the session
StartSession ==
    /\ pc = "sessions"
    /\ Len(sessions) < MaxSessions
    /\ LET session_id == generate_session_id(now)
           s == Len(sessions) + 1
       IN /\ sessions' = Append(sessions, [session_id |-> session_id,
                                           reported |-> FALSE])
          /\ log_files' = log_files \cup {[name |-> session_id, writer |-> s]}
    /\ UNCHANGED <<pc, steps, router_write_kept, state_vars, hist_vars,
                   search_vars, result_vars, call_vars, now, report_files,
                   audit_vars>>

\* synthesize_report of session s: open(report_path, "w") replaces the file
WriteReport(s) ==
    /\ pc = "sessions"
    /\ ~sessions[s].reported
    /\ sessions' = [sessions EXCEPT ![s].reported = TRUE]
    /\ report_files' = {f \in report_files : f.name # sessions[s].session_id}
                           \cup {[name |-> sessions[s].session_id, writer |-> s]}
    /\ UNCHANGED <<pc, steps, router_write_kept, state_vars, hist_vars,
                   search_vars, result_vars, call_vars, now, log_files,
                   audit_vars>>

SessionInit ==
    /\ pc = "sessions"
    /\ steps = 0
    /\ max_depth = 0
    /\ Fresh
    /\ router_write_kept
    /\ call = NoCall
    /\ value = <<>>
    /\ NoSessions

SessionNext ==
    \/ Tick
    \/ StartSession
    \/ \E s \in 1..Len(sessions) : WriteReport(s)

SessionSpec == SessionInit /\ [][SessionNext]_vars

----------------------------------------------------------------------------
(* retry_agent_execution (src/utils/research_utils.py): one action per     *)
(* pass of its for loop and one for the statement after the loop.  The     *)
(* call record holds the locals of the function; invoked lists the         *)
(* outcomes of agent_func in call order and waits the arguments of         *)
(* asyncio.sleep in call order.                                            *)

\* largest max_retries argument
MaxRetries == 3
\* largest initial_delay argument, in seconds
MaxInitialDelay == 2
\* largest backoff_factor argument
MaxBackoff == 2

\* the exceptions agent_func can raise
AgentExceptions == {"TimeoutError", "RateLimitError"}
\* what one invocation of agent_func does
AgentOutcomes == {"result"} \cup AgentExceptions

\* raise last_exception: raising None is a TypeError
Raised(last_exception) ==
    IF last_exception = None THEN "TypeError" ELSE last_exception

\* one pass of the loop: agent_func is awaited; its result is returned, or
\* its exception is kept and, unless this was the last attempt, the
\* function sleeps for delay and multiplies delay by backoff_factor
RetryAttempt(outcome) ==
    /\ call.fn = "retry_agent_execution"
    /\ value = <<>>
    /\ call.attempt < call.max_retries
    /\ IF outcome = "result"
       THEN /\ call' = [call EXCEPT !.invoked = Append(@, outcome)]
            /\ value' = <<[returned |-> outcome]>>
       ELSE /\ call' = [call EXCEPT
                  !.invoked = Append(@, outcome),
                  !.last_exception = outcome,
                  !.waits = IF call.attempt < call.max_retries - 1
                            THEN Append(@, call.delay) ELSE @,
                  !.delay = IF call.attempt < call.max_retries - 1
                            THEN @ * call.backoff_factor ELSE @,
                  !.attempt = @ + 1]
            /\ value' = value
    /\ UNCHANGED <<pc, steps, router_write_kept, state_vars, hist_vars,
                   search_vars, result_vars, session_vars, audit_vars>>

\* the loop has ended without a return: raise last_exception
RetryExhausted ==
    /\ call.fn = "retry_agent_execution"
    /\ value = <<>>
    /\ call.attempt >= call.max_retries
    /\ value' = <<[raised |-> Raised(call.last_exception)]>>
    /\ UNCHANGED <<pc, steps, router_write_kept, state_vars, hist_vars,
                   search_vars, result_vars, call, session_vars, audit_vars>>

RetryInit ==
    /\ pc = "retry"
    /\ steps = 0
    /\ max_depth = 0
    /\ Fresh
    /\ router_write_kept
    /\ \E n \in 0..MaxRetries, d \in 1..MaxInitialDelay, b \in 1..MaxBackoff :
           call = [fn |-> "retry_agent_execution", max_retries |-> n,
                   initial_delay |-> d, backoff_factor |-> b,
                   attempt |-> 0, delay |-> d, last_exception |-> None,
                   invoked |-> <<>>, waits |-> <<>>]
    /\ value = <<>>
    /\ NoSessions

RetryNext ==
    \/ \E outcome \in AgentOutcomes : RetryAttempt(outcome)
    \/ RetryExhausted

RetrySpec == RetryInit /\ [][RetryNext]_vars

----------------------------------------------------------------------------
(* Properties *)

LatestStop(memory) == memory # <<>> /\ ~memory[Len(memory)].should_continue

\* the last two analyses both name no progress or are shorter than 200
\* characters
TrailingWindowStagnant(memory) ==
    /\ Len(memory) >= 2
    /\ \A i \in (Len(memory) - 1)..Len(memory) :
           \/ memory[i].analysis_summary.phrase # "none"
           \/ memory[i].analysis_summary.length < 200

Finalize(reason) == [route |-> "finalize", reason |-> reason]

OnlyStagnationHolds ==
    /\ current_depth < max_depth
    /\ ~LatestStop(reflection_memory)
    /\ TrailingWindowStagnant(reflection_memory)

NoCriterionHolds ==
    /\ current_depth < max_depth
    /\ ~LatestStop(reflection_memory)
    /\ ~TrailingWindowStagnant(reflection_memory)

\* C1: the routing function checks max depth, then the latest reflection's
\* stop, then stagnation of the trailing window, and the first criterion
\* that holds decides the route and the recorded reason; with none it
\* returns continue_search and assigns no reason.
C1_PriorityOrder ==
    [][pc = "route" =>
        /\ (current_depth >= max_depth
                => routed' = Finalize("max_depth_reached"))
        /\ (current_depth < max_depth /\ LatestStop(reflection_memory)
                => routed' = Finalize("reflection_recommended_stop"))
        /\ (OnlyStagnationHolds
                => routed' = Finalize("stagnation_detected"))
        /\ (NoCriterionHolds
                => (/\ routed' = [route |-> "continue_search", reason |-> None]
                    /\ termination_reason' = termination_reason
                    /\ pc' = "generate_queries"))
        /\ (routed'.route = "finalize" => pc' = "map_connections")
        /\ (router_write_kept /\ routed'.route = "finalize"
                => termination_reason' = routed'.reason)]_vars

\* all three stop criteria hold at once and max depth is the recorded reason
C1_Witness ==
    /\ routed = Finalize("max_depth_reached")
    /\ pc = "map_connections"
    /\ LatestStop(reflection_memory)
    /\ TrailingWindowStagnant(reflection_memory)

\* the run is inside the graph or has left it
Started == pc \notin {"research", "rejected"}

\* C2: for max_depth d >= 1 the loop executes at most d generate_queries ->
\* execute_search -> analyze_and_reflect cycles, whatever the collaborators
\* return.
C2_HardCap ==
    (Started /\ max_depth >= 1) => cycles <= max_depth

\* C3: the node executions of a run never exceed the recursion limit, and
\* every run ends in the synthesized terminal state or in a failure result.
C3_Terminates ==
    /\ [](steps <= recursion_limit)
    /\ <>(pc \in Terminal)

\* the recursion limit ended a run that kept looping
C3_Witness ==
    /\ pc = "failed"
    /\ steps = recursion_limit
    /\ last_node = "analyze_and_reflect"
    /\ current_depth < max_depth

\* C4: a finalize decision always leads to map_connections, which runs at
\* most once and has completed exactly once when synthesize_report starts;
\* synthesize_report never runs without it, and a routing decision is only
\* taken right after analyze_and_reflect has run.
C4_MapBeforeSynthesis ==
    /\ [](/\ map_runs <= 1
          /\ synth_runs <= 1
          /\ (synth_runs > 0 => map_runs = 1)
          /\ (pc = "synthesize_report"
                 => map_runs = 1 /\ last_node = "map_connections")
          /\ (pc = "route" => last_node = "analyze_and_reflect" /\ cycles >= 1))
    /\ [][/\ (pc = "route" /\ routed'.route = "finalize"
                 => pc' = "map_connections" /\ map_runs = 0)
          /\ (pc' = "synthesize_report"
                 => pc = "map_connections" /\ map_runs' = 1)
          /\ (pc' = "route" => pc = "analyze_and_reflect")]_vars

\* a run that stopped on the reflection's advice after its first iteration
\* and still mapped connections before the report
C4_Witness ==
    /\ pc = "END"
    /\ cycles = 1
    /\ routed = Finalize("reflection_recommended_stop")
    /\ map_runs = 1
    /\ synth_runs = 1

\* C5: when a batch mixes failing and succeeding searches, execute_search
\* adds the result of every succeeding query to search_memory, records one
\* error per failing query, and the session goes on to analysis.
C5_FailureIsolation ==
    [][(pc = "execute_search" /\ pc' = "analyze_and_reflect"
           /\ CountOf(last_outcomes', "ok") > 0
           /\ CountOf(last_outcomes', "fail") > 0)
       => (/\ \A i \in 1..Len(last_outcomes') :
                 last_outcomes'[i] = "ok"
                     => \E k \in (Len(search_memory) + 1)..Len(search_memory') :
                            search_memory'[k].query = pending_queries[i]
           /\ error_count' = error_count + CountOf(last_outcomes', "fail"))]_vars

\* C6: parallel_search returns one slot per input query, slot i holding the
\* result of query i whatever the completion order, also when some searches
\* fail; it never raises.
C6_OneSlotPerQuery ==
    gather \in {"returned", "raised"}
        => /\ gather = "returned"
           /\ Len(returned) = Len(batch)
           /\ \A i \in 1..Len(batch) : returned[i].query = batch[i]

\* C7: while parallel_search runs, at most max_concurrent searches are in
\* flight; a task waiting for the semaphore has not called the collaborator;
\* a finished search, successful or failed, holds no slot.
C7_BoundedConcurrency ==
    gather # "idle"
        => /\ Cardinality(Running) <= max_concurrent
           /\ sem_value >= 0
           /\ sem_value + Cardinality(Running) = max_concurrent
           /\ \A i \in 1..Len(task) : task[i] = "waiting" => i \notin called
           /\ called = {i \in 1..Len(task) : task[i] # "waiting"}

\* more queries than slots: every slot is taken again after a search failed
\* and released its slot, and a task is still waiting
C7_Witness ==
    /\ gather # "idle"
    /\ Len(batch) > max_concurrent
    /\ Cardinality(Running) = max_concurrent
    /\ \E i \in 1..Len(task) : task[i] = "failed"
    /\ \E i \in 1..Len(task) : task[i] = "waiting"

\* C8: at every stage boundary of a run started through research(),
\* 0 <= current_depth <= max_depth.
C8_DepthWithinBounds ==
    (Started /\ last_node # None)
        => (0 <= current_depth /\ current_depth <= max_depth)

\* C9: every execution of analyze_and_reflect that returns normally adds
\* exactly 1 to current_depth, with its reflection recorded, and no other
\* stage or routing step changes current_depth.
C9_DepthOnlyInAnalysis ==
    [][/\ (pc = "analyze_and_reflect" /\ pc' = "route"
              => (/\ current_depth' = current_depth + 1
                  /\ Len(reflection_memory') = Len(reflection_memory) + 1))
       /\ (pc # "analyze_and_reflect" => current_depth' = current_depth)]_vars

C11_OnlyPolicyWrites ==
    [][termination_reason' # termination_reason
          => (pc = "route" /\ termination_reason = None)]_vars

\* C12: the report of a session carries in its metadata the reason the
\* routing decision recorded, never null, and as research_depth the number
\* of completed analysis steps.
C12_ReportCarriesReason ==
    final_report # <<>>
        => /\ final_report[1].termination_reason # None
           /\ final_report[1].termination_reason = routed.reason
           /\ final_report[1].research_depth = Len(reflection_memory)

\* C13: when the routing decision was to continue and the query generation
\* that follows leaves no pending query, the loop stops with reason
\* no_additional_queries and no search stage runs.
C13_NoQueriesStops ==
    [][(/\ pc = "generate_queries"
        /\ routed.route = "continue_search"
        /\ has_new_queries(pending_queries').route = "synthesize")
       => (/\ pc' # "execute_search"
           /\ (router_write_kept
                  => termination_reason' = "no_additional_queries"))]_vars

\* a record counts as stagnant when its summary contains a no-progress
\* phrase in any letter case or has fewer than 200 characters
StagnantRecord(reflection) ==
    \/ reflection.analysis_summary.phrase \in {"lower", "upper"}
    \/ reflection.analysis_summary.length < 200

C15_OnlySynthesisFatal ==
    [][(pc' = "failed" /\ steps' = steps + 1) => pc = "synthesize_report"]_vars

\* synthesize_report has run and raised
SynthesisFails ==
    pc = "synthesize_report" /\ pc' = "failed" /\ steps' = steps + 1

SynthesisFailed ==
    pc = "failed" /\ last_node = "synthesize_report" /\ steps < recursion_limit

\* C16 as stated: a failing synthesize_report adds 1 to error_count, clears
\* should_continue, records the error as termination_reason and stores no
\* final_report; research() returns a failure with session id and error.
C16_SynthesisFailure ==
    /\ [][SynthesisFails
             => (/\ error_count' = error_count + 1
                 /\ should_continue' = FALSE
                 /\ termination_reason' = "report_generation_error"
                 /\ final_report' = <<>>)]_vars
    /\ []((SynthesisFailed /\ result.returned)
             => (~result.success /\ result.session_id /\ result.error))

\* C16: as above, except that final_report is stored when the failure
\* happens after the report was generated, while its file is written;
\* the failure result of research() carries no report.
C16_SynthesisFailureReportMayBeStored ==
    /\ [][SynthesisFails
             => (/\ error_count' = error_count + 1
                 /\ should_continue' = FALSE
                 /\ termination_reason' = "report_generation_error"
                 /\ final_report' \in {<<>>, <<ReportOf(termination_reason)>>}
                 /\ (report_file' # report_file => final_report' # <<>>))]_vars
    /\ []((SynthesisFailed /\ result.returned)
             => (/\ ~result.success /\ result.session_id /\ result.error
                 /\ result.report = <<>>))

\* research() has returned the failure of a report generation that raised
\* before any report existed
C16_Witness ==
    /\ SynthesisFailed
    /\ result.returned
    /\ error_count = 1
    /\ final_report = <<>>
    /\ termination_reason = "report_generation_error"

\* C17: every failure result research() returns holds an error reason and
\* the session id.
C17_FailureResultComplete ==
    (result.returned /\ ~result.success)
        => (result.error /\ result.session_id)

\* C18: research() returns success exactly when one report exists: with
\* success the result holds the report and its file is completely written,
\* with failure no report file of the session exists.
C18_SuccessIffOneReport ==
    result.returned
        => IF result.success
           THEN /\ result.report # <<>>
                /\ final_report # <<>>
                /\ report_file = "complete"
           ELSE report_file = "absent"

\* the largest max_search_depth the settings validator accepts
MaxValidDepth == 10

\* C19: research() rejects a max_depth below 1 or above the configured upper
\* bound before any stage runs, so no stage runs with such a max_depth.
C19_InvalidDepthRejected ==
    (Started /\ last_node # None)
        => (1 <= max_depth /\ max_depth <= MaxValidDepth)

\* C20: merging the entities of the same analysis_summary a second time
\* leaves the entity dictionary as the first merge produced it.
C20_MergeIdempotent ==
    (call.fn = "merge_entities_with_llm" /\ Len(value) = 2)
        => value[2] = value[1]

\* C21: when map_connections has stored the merged graph, the source and
\* the target of every edge of entity_graph are ids of its nodes.
C21_EdgesReferenceNodes ==
    (last_node = "map_connections" /\ pc = "synthesize_report")
        => \A e \in entity_graph.edges :
               e[1] \in entity_graph.nodes /\ e[2] \in entity_graph.nodes

\* the entity keys of an entity dictionary
EntityKeys(d) == {r.name : r \in d}

\* C22: the entity dictionary only grows: every entity key present before a
\* merge is still present after it.
C22_EntitiesOnlyGrow ==
    call.fn = "merge_entities_with_llm"
        => \A k \in 1..Len(value) :
               EntityKeys(IF k = 1 THEN call.existing_entities ELSE value[k - 1])
                   \subseteq EntityKeys(value[k])

\* C23: two sessions never have the same session_id, so a report file or
\* an audit log is written by one session only and every session that has
\* written its report still owns its report file.
C23_SessionsIndependent ==
    /\ \A s \in 1..Len(sessions), t \in 1..Len(sessions) :
           s # t => sessions[s].session_id # sessions[t].session_id
    /\ \A f \in log_files, g \in log_files : f.name = g.name => f.writer = g.writer
    /\ \A s \in 1..Len(sessions) :
           sessions[s].reported
               => [name |-> sessions[s].session_id, writer |-> s] \in report_files

\* C24: while execute_web_search runs its batch, at most
\* settings.max_concurrent_searches search calls are in flight.
C24_ConfiguredLimitRespected ==
    gather # "idle" => Cardinality(Running) <= max_concurrent_searches

\* the search stage has run a batch and the batch did not raise
SearchSucceeds ==
    /\ pc = "execute_search" /\ pc' = "analyze_and_reflect"
    /\ pending_queries # <<>>
    /\ error_count' = error_count

\* C25: a successful search stage submits the first min(len(pending_queries),
\* max_queries_per_depth) pending queries, appends exactly those to
\* queries_executed in order, adds their number to search_count and leaves
\* the remaining queries pending.
C25_PerDepthTruncation ==
    [][SearchSucceeds
          => LET k == IF Len(pending_queries) < max_queries_per_depth
                      THEN Len(pending_queries) ELSE max_queries_per_depth
             IN /\ Len(last_outcomes') = k
                /\ queries_executed' = queries_executed \o SubSeq(pending_queries, 1, k)
                /\ search_count' = search_count + k
                /\ pending_queries' = SubSeq(pending_queries, k + 1, Len(pending_queries))]_vars

\* three queries were pending: two were searched, the third is still pending
C25_Witness ==
    /\ last_node = "execute_search"
    /\ error_count = 0
    /\ Len(last_outcomes) = max_queries_per_depth
    /\ Len(queries_executed) = max_queries_per_depth
    /\ search_count = max_queries_per_depth
    /\ Len(pending_queries) = 1

\* retry_agent_execution has returned or raised
RetryDone == call.fn = "retry_agent_execution" /\ value # <<>>

\* C26: retry_agent_execution with max_retries = n >= 0 invokes agent_func
\* at least once and at most n times, returns the first successful result
\* at once, re-raises the last exception of agent_func when every
\* invocation failed, and waits only between consecutive attempts, each wait
\* being backoff_factor times the one before.
C26_RetryContract ==
    RetryDone =>
        LET invoked == call.invoked
            waits == call.waits
        IN /\ Len(invoked) >= 1
           /\ Len(invoked) <= call.max_retries
           /\ \A i \in 1..(Len(invoked) - 1) : invoked[i] # "result"
           /\ ("returned" \in DOMAIN value[1])
                  => invoked[Len(invoked)] = "result"
           /\ ("raised" \in DOMAIN value[1])
                  => /\ Len(invoked) = call.max_retries
                     /\ value[1].raised = invoked[Len(invoked)]
           /\ Len(waits) = Len(invoked) - 1
           /\ \A i \in 2..Len(waits) :
                  waits[i] = waits[i - 1] * call.backoff_factor

IsPrefix(s, t) == Len(s) <= Len(t) /\ SubSeq(t, 1, Len(s)) = s

\* C27: queries_executed, search_memory, reflection_memory and the three
\* risk_indicators lists are append-only and error_count and search_count
\* never decrease: in every step of a run the old value of each list is a
\* prefix of its new value, and search_memory and reflection_memory are in
\* the order in which their stages completed (depths do not decrease).
C27_AppendOnly ==
    /\ [][/\ IsPrefix(queries_executed, queries_executed')
          /\ IsPrefix(search_memory, search_memory')
          /\ IsPrefix(reflection_memory, reflection_memory')
          /\ IsPrefix(risk_indicators.red_flags, risk_indicators'.red_flags)
          /\ IsPrefix(risk_indicators.neutral, risk_indicators'.neutral)
          /\ IsPrefix(risk_indicators.positive, risk_indicators'.positive)
          /\ error_count' >= error_count
          /\ search_count' >= search_count]_vars
    /\ [](\A i, j \in 1..Len(search_memory) :
              i < j => search_memory[i].depth <= search_memory[j].depth)

\* two search stages and two analyses have appended their entries, one
\* collaborator failure was counted and a red flag was added
C27_Witness ==
    /\ Len(queries_executed) >= 3
    /\ Len(search_memory) >= 2
    /\ search_memory[1].depth < search_memory[Len(search_memory)].depth
    /\ Len(reflection_memory) = 2
    /\ risk_indicators.red_flags # <<>>
    /\ error_count = 1

\* C28: at every stage boundary of a run len(reflection_memory) =
\* current_depth; a step changes either of them only when analyze_and_reflect
\* completes an analysis, and then it appends one reflection and adds one to
\* the depth; every other step, failing calls included, leaves both alone.
C28_ReflectionsMatchDepth ==
    /\ [](Len(reflection_memory) = current_depth)
    /\ [][(reflection_memory' # reflection_memory \/ current_depth' # current_depth)
             => /\ pc = "analyze_and_reflect" /\ pc' = "route"
                /\ Len(reflection_memory') = Len(reflection_memory) + 1
                /\ IsPrefix(reflection_memory, reflection_memory')
                /\ current_depth' = current_depth + 1]_vars

\* after one completed analysis the second analysis has failed
C28_Witness ==
    /\ pc = "failed"
    /\ last_node = "analyze_and_reflect"
    /\ Len(reflection_memory) = 1
    /\ current_depth = 1

\* map_connections or synthesize_report is about to run or has run
Finalizing ==
    \/ pc \in {"map_connections", "synthesize_report"}
    \/ map_runs > 0
    \/ synth_runs > 0

BatchRaises ==
    /\ pc = "execute_search" /\ pc' = "analyze_and_reflect"
    /\ pending_queries # <<>>
    /\ \E i \in 1..Len(last_outcomes') : last_outcomes'[i] = "fail"

\* execute_web_search runs with no pending query
NothingPending ==
    /\ pc = "execute_search" /\ pc' = "analyze_and_reflect"
    /\ pending_queries = <<>>

\* C30: when the batch of execute_web_search raises, search_memory,
\* queries_executed, pending_queries and search_count stay as they were,
\* error_count grows by exactly 1 and exactly one search_iterations entry is
\* appended, whose errors list holds the error; with no pending query the
\* stage leaves the whole state unchanged, search_iterations included.
C30_FailedBatchFrame ==
    /\ [][BatchRaises
             => /\ UNCHANGED <<search_memory, queries_executed,
                               pending_queries, search_count>>
                /\ error_count' = error_count + 1
                /\ Len(search_iterations') = Len(search_iterations) + 1
                /\ IsPrefix(search_iterations, search_iterations')
                /\ search_iterations'[Len(search_iterations')].errors
                       = <<SearchError>>]_vars
    /\ [][NothingPending => UNCHANGED <<state_vars, audit_vars>>]_vars

\* after a successful first search stage the batch of the second one raised
C30_Witness ==
    /\ last_node = "execute_search"
    /\ \E i \in 1..Len(last_outcomes) : last_outcomes[i] = "fail"
    /\ error_count = 1
    /\ queries_executed # <<>>
    /\ pending_queries # <<>>
    /\ Len(search_iterations) = 2
    /\ search_iterations[1].errors = <<>>
    /\ search_iterations[2].errors = <<SearchError>>

====
